---- MODULE Spec2Model ----
(***************************************************************************)
(* LLaMaTokenizer (src/transformers/models/llama/tokenization_llama.py):   *)
(* the special-token registry built by __init__, its assertions, and the   *)
(* five read operations vocab_size, get_vocab, _tokenize,                  *)
(* _convert_token_to_id and _convert_id_to_token.                          *)
(*                                                                         *)
(* Strings are TLA+ strings.  A text is a sequence of one-character        *)
(* strings.  A Python dict is a function whose DOMAIN is its key set.      *)
(***************************************************************************)
EXTENDS Integers, Sequences, FiniteSets, TLC

\* Number of pieces of the loaded SentencePiece model.
VocabSize == 4

\* Longest text handed to _tokenize.
MaxTextLen == 2

\* The piece table the vocabularies are cut from; a piece's id is its index - 1.
AllPieces == <<"<unk>", "<s>", "</s>", "ab", "a", "b", "ba", "bb">>

Pieces == SubSeq(AllPieces, 1, VocabSize)

\* Ids a model file can report for a role: -1 is a disabled role.
ModelIds == -1 .. (VocabSize - 1)

\* Strings a caller passes as bos_token / eos_token / unk_token.
TokenStrings == {Pieces[i] : i \in 1..VocabSize} \cup {"<bos>", "<eos>"}

\* Strings a caller passes to _convert_token_to_id.
QueryStrings == TokenStrings \cup {"zz"}

\* Indexes a caller passes to _convert_id_to_token.
QueryIds == -1 .. VocabSize

Alphabet == {"a", "b"}

Texts == UNION {[1..n -> Alphabet] : n \in 0..MaxTextLen}

\* An attribute that has not been assigned yet.
NoValue == "(unset)"

\* The empty dict.
NoDict == [k \in {} |-> 0]

\* self.sp_model before line 51 has run.
NoModel == [pieces |-> <<>>, bos_id |-> -1, eos_id |-> -1, unk_id |-> -1]

Threads == {"t1", "t2"}

Idle == [op |-> "idle"]

NoCall == [op |-> "none"]

VARIABLES
    pc,                   \* position of __init__: new, registry, checked, super, constructed, failed
    model,                \* contents of the file vocab_file names
    args,                 \* bos_token, eos_token, unk_token as passed to __init__
    sp_model,             \* self.sp_model
    special_token_to_id,  \* self.special_token_to_id
    special_id_to_token,  \* self.special_id_to_token
    bos_token,            \* self.bos_token
    eos_token,            \* self.eos_token
    unk_token,            \* self.unk_token
    vocab_file,           \* self.vocab_file
    error,                \* source line of the assertion that failed, 0 for none
    ret,                  \* the last completed call of a single caller
    threads               \* each concurrent caller's call in progress

vars == <<pc, model, args, sp_model, special_token_to_id, special_id_to_token,
          bos_token, eos_token, unk_token, vocab_file, error, ret, threads>>

registry == <<special_token_to_id, special_id_to_token>>

attrs == <<bos_token, eos_token, unk_token>>

inputs == <<model, args>>

Max(S) == CHOOSE x \in S : \A y \in S : y <= x

Min(S) == CHOOSE x \in S : \A y \in S : x <= y

(***************************************************************************)
(* The SentencePieceProcessor methods the adapter calls.                   *)
(***************************************************************************)
PieceSet(sp) == {sp.pieces[i] : i \in 1..Len(sp.pieces)}

get_piece_size(sp) == Len(sp.pieces)

\* An unknown piece resolves to the unknown id (what line 61 relies on).
piece_to_id(sp, piece) ==
    IF piece \in PieceSet(sp)
    THEN (CHOOSE i \in 1..Len(sp.pieces) : sp.pieces[i] = piece) - 1
    ELSE sp.unk_id

IdToPiece(sp, index) == sp.pieces[index + 1]

RECURSIVE Concat(_)
Concat(cs) == IF cs = <<>> THEN "" ELSE Head(cs) \o Concat(Tail(cs))

\* Segmentation: longest piece first; a character no piece covers is
\* emitted as its own surface string.
RECURSIVE encode(_, _)
encode(sp, text) ==
    IF text = <<>> THEN <<>>
    ELSE LET ks == {k \in 1..Len(text) : Concat(SubSeq(text, 1, k)) \in PieceSet(sp)}
             k  == IF ks = {} THEN 1 ELSE Max(ks)
         IN  <<Concat(SubSeq(text, 1, k))>> \o encode(sp, SubSeq(text, k + 1, Len(text)))

(***************************************************************************)
(* __init__, lines 51-76.                                                  *)
(***************************************************************************)
\* The keys of the dict literal of lines 52-56 in insertion order.
KeyOrder(a) ==
    <<a.bos_token>>
    \o (IF a.eos_token = a.bos_token THEN <<>> ELSE <<a.eos_token>>)
    \o (IF a.unk_token \in {a.bos_token, a.eos_token} THEN <<>> ELSE <<a.unk_token>>)

\* Lines 52-56: a repeated key keeps the value written last.
SpecialTokenToId(sp, a) ==
    [k \in {a.bos_token, a.eos_token, a.unk_token} |->
        IF k = a.unk_token THEN sp.unk_id
        ELSE IF k = a.eos_token THEN sp.eos_id
        ELSE sp.bos_id]

\* Line 57: the comprehension walks the items in insertion order, and a
\* repeated id keeps the token written last.
SpecialIdToToken(d, order) ==
    [v \in {d[k] : k \in DOMAIN d} |->
        order[Max({j \in 1..Len(order) : d[order[j]] = v})]]

\* Lines 58-62 without the assertion of line 61.
AssertionFailureNoCollisionCheck(sp, d, inv, order) ==
    IF Cardinality(DOMAIN inv) # Cardinality(DOMAIN d) THEN 58
    ELSE IF \E k \in DOMAIN d : ~(d[k] >= 0) THEN 62 ELSE 0

\* Lines 58-62 without the assertion of line 58.
AssertionFailureNoLenCheck(sp, d, inv, order) ==
    LET bad61(j) == sp.unk_id # piece_to_id(sp, order[j])
        bad62(j) == ~(d[order[j]] >= 0)
        bad      == {j \in 1..Len(order) : bad61(j) \/ bad62(j)}
    IN  IF bad = {} THEN 0
        ELSE IF bad61(Min(bad)) THEN 61 ELSE 62

\* Lines 58-62: the line of the first assertion that fails, 0 when none does.
AssertionFailure(sp, d, inv, order) ==
    IF Cardinality(DOMAIN inv) # Cardinality(DOMAIN d) THEN 58
    ELSE LET bad61(j) == sp.unk_id # piece_to_id(sp, order[j])
             bad62(j) == ~(d[order[j]] >= 0)
             bad      == {j \in 1..Len(order) : bad61(j) \/ bad62(j)}
         IN  IF bad = {} THEN 0
             ELSE IF bad61(Min(bad)) THEN 61 ELSE 62

Init ==
    /\ pc = "new"
    /\ model \in [pieces : {Pieces}, bos_id : ModelIds, eos_id : ModelIds, unk_id : ModelIds]
    /\ args \in [bos_token : TokenStrings, eos_token : TokenStrings, unk_token : TokenStrings]
    /\ sp_model = NoModel
    /\ special_token_to_id = NoDict
    /\ special_id_to_token = NoDict
    /\ bos_token = NoValue
    /\ eos_token = NoValue
    /\ unk_token = NoValue
    /\ vocab_file = NoValue
    /\ error = 0
    /\ ret = NoCall
    /\ threads = [t \in Threads |-> Idle]

\* Lines 51-57.
BuildRegistry ==
    /\ pc = "new"
    /\ sp_model' = model
    /\ special_token_to_id' = SpecialTokenToId(model, args)
    /\ special_id_to_token' = SpecialIdToToken(SpecialTokenToId(model, args), KeyOrder(args))
    /\ pc' = "registry"
    /\ UNCHANGED <<inputs, attrs, vocab_file, error, ret, threads>>

\* Lines 58-62.
CheckRegistry ==
    /\ pc = "registry"
    /\ error' = AssertionFailure(sp_model, special_token_to_id, special_id_to_token,
                                 KeyOrder(args))
    /\ pc' = IF error' = 0 THEN "checked" ELSE "failed"
    /\ UNCHANGED <<inputs, sp_model, registry, attrs, vocab_file, ret, threads>>

\* Lines 65-72: the base class stores the three strings.
SuperInit ==
    /\ pc = "checked"
    /\ bos_token' = args.bos_token
    /\ eos_token' = args.eos_token
    /\ unk_token' = args.unk_token
    /\ pc' = "super"
    /\ UNCHANGED <<inputs, sp_model, registry, vocab_file, error, ret, threads>>

\* Lines 74-76: the model is loaded again from the same file.
StoreVocabFile ==
    /\ pc = "super"
    /\ vocab_file' = "tokenizer.model"
    /\ sp_model' = model
    /\ pc' = "constructed"
    /\ UNCHANGED <<inputs, registry, attrs, error, ret, threads>>

(***************************************************************************)
(* The read operations, lines 78-102.  Each yields the value returned, the *)
(* exception raised and the sp_model methods it consulted.                 *)
(***************************************************************************)
Returned(v, c) == [value |-> v, raised |-> "none", calls |-> c]

Raised(e, c) == [value |-> 0, raised |-> e, calls |-> c]

\* Lines 78-80.
vocab_size == get_piece_size(sp_model)

\* Lines 86-88 with the begin token left out of an empty segmentation.
_tokenize_SkipEmpty(text) ==
    IF encode(sp_model, text) = <<>> THEN Returned(<<>>, {"encode"})
    ELSE Returned(<<bos_token>> \o encode(sp_model, text), {"encode"})

\* Lines 86-88.
_tokenize(text) == Returned(<<bos_token>> \o encode(sp_model, text), {"encode"})

\* Lines 90-96 with the vocabulary asked before the registry.
_convert_token_to_id_VocabFirst(token) ==
    IF token \in PieceSet(sp_model)
    THEN Returned(piece_to_id(sp_model, token), {"piece_to_id"})
    ELSE IF token \in DOMAIN special_token_to_id
         THEN Returned(special_token_to_id[token], {"piece_to_id"})
         ELSE Returned(piece_to_id(sp_model, token), {"piece_to_id"})

\* Lines 90-96 with a token the vocabulary does not hold raising.
_convert_token_to_id_Strict(token) ==
    IF token \in DOMAIN special_token_to_id
    THEN Returned(special_token_to_id[token], {})
    ELSE IF token \in PieceSet(sp_model)
         THEN Returned(piece_to_id(sp_model, token), {"piece_to_id"})
         ELSE Raised("KeyError", {"piece_to_id"})

\* Lines 90-96.
_convert_token_to_id(token) ==
    IF token \in DOMAIN special_token_to_id
    THEN Returned(special_token_to_id[token], {})
    ELSE Returned(piece_to_id(sp_model, token), {"piece_to_id"})

\* Lines 98-102.
_convert_id_to_token(index) ==
    IF index \in DOMAIN special_id_to_token
    THEN Returned(special_id_to_token[index], {})
    ELSE IF index \in 0 .. (get_piece_size(sp_model) - 1)
         THEN Returned(IdToPiece(sp_model, index), {"IdToPiece"})
         ELSE Raised("IndexError", {"IdToPiece"})

\* Line 83, the dict comprehension over range(n): a repeated key keeps the
\* id written last.
VocabUpTo(n) ==
    [k \in {_convert_id_to_token(i).value : i \in 0 .. (n - 1)} |->
        Max({i \in 0 .. (n - 1) : _convert_id_to_token(i).value = k})]

\* Lines 82-84.
get_vocab == Returned(VocabUpTo(vocab_size), {"get_piece_size", "IdToPiece"})

Completed(op, arg, r) ==
    [op |-> op, arg |-> arg, value |-> r.value, raised |-> r.raised, calls |-> r.calls]

CallVocabSize ==
    /\ pc = "constructed"
    /\ ret' = Completed("vocab_size", 0, Returned(vocab_size, {"get_piece_size"}))
    /\ UNCHANGED <<pc, inputs, sp_model, registry, attrs, vocab_file, error, threads>>

CallGetVocab ==
    /\ pc = "constructed"
    /\ ret' = Completed("get_vocab", 0, get_vocab)
    /\ UNCHANGED <<pc, inputs, sp_model, registry, attrs, vocab_file, error, threads>>

CallTokenize ==
    /\ pc = "constructed"
    /\ \E text \in Texts : ret' = Completed("_tokenize", text, _tokenize(text))
    /\ UNCHANGED <<pc, inputs, sp_model, registry, attrs, vocab_file, error, threads>>

CallConvertTokenToId ==
    /\ pc = "constructed"
    /\ \E token \in QueryStrings :
          ret' = Completed("_convert_token_to_id", token, _convert_token_to_id(token))
    /\ UNCHANGED <<pc, inputs, sp_model, registry, attrs, vocab_file, error, threads>>

CallConvertIdToToken ==
    /\ pc = "constructed"
    /\ \E index \in QueryIds :
          ret' = Completed("_convert_id_to_token", index, _convert_id_to_token(index))
    /\ UNCHANGED <<pc, inputs, sp_model, registry, attrs, vocab_file, error, threads>>

Next ==
    \/ BuildRegistry
    \/ CheckRegistry
    \/ SuperInit
    \/ StoreVocabFile
    \/ CallVocabSize
    \/ CallGetVocab
    \/ CallTokenize
    \/ CallConvertTokenToId
    \/ CallConvertIdToToken

Spec == Init /\ [][Next]_vars

(***************************************************************************)
(* The caller assigns tokenizer.bos_token after construction.              *)
(***************************************************************************)
SetBosToken ==
    /\ pc = "constructed"
    /\ \E s \in QueryStrings : bos_token' = s
    /\ UNCHANGED <<pc, inputs, sp_model, registry, eos_token, unk_token, vocab_file,
                   error, ret, threads>>

NextReassign == Next \/ SetBosToken

SpecReassign == Init /\ [][NextReassign]_vars

(***************************************************************************)
(* Concurrent callers.  A call is two steps or more: the step that enters  *)
(* the method and does its first read of self, then the rest.  What the    *)
(* first read saw is kept in the caller's local.                           *)
(***************************************************************************)
InFlight(op, arg, local) == [op |-> op, arg |-> arg, local |-> local]

\* Line 80: entered, sp_model not asked yet.
BeginVocabSize(t) ==
    /\ pc = "constructed"
    /\ threads[t].op = "idle"
    /\ threads' = [threads EXCEPT ![t] = InFlight("vocab_size", 0, 0)]
    /\ UNCHANGED <<pc, inputs, sp_model, registry, attrs, vocab_file, error, ret>>

\* Line 83: range(self.vocab_size) is evaluated once, before the first item.
BeginGetVocab(t) ==
    /\ pc = "constructed"
    /\ threads[t].op = "idle"
    /\ threads' = [threads EXCEPT ![t] =
                      InFlight("get_vocab", 0, [n |-> vocab_size, i |-> 0, vocab |-> NoDict])]
    /\ UNCHANGED <<pc, inputs, sp_model, registry, attrs, vocab_file, error, ret>>

\* Line 83: one item of the comprehension.
GetVocabStep(t) ==
    /\ threads[t].op = "get_vocab"
    /\ threads[t].local.i < threads[t].local.n
    /\ LET l   == threads[t].local
           tok == _convert_id_to_token(l.i).value
       IN  threads' = [threads EXCEPT ![t].local =
                         [n |-> l.n, i |-> l.i + 1,
                          vocab |-> [k \in DOMAIN l.vocab \cup {tok} |->
                                       IF k = tok THEN l.i ELSE l.vocab[k]]]]
    /\ UNCHANGED <<pc, inputs, sp_model, registry, attrs, vocab_file, error, ret>>

\* Line 88: self.bos_token is read first, then the text is encoded.
BeginTokenize(t, text) ==
    /\ pc = "constructed"
    /\ threads[t].op = "idle"
    /\ threads' = [threads EXCEPT ![t] = InFlight("_tokenize", text, bos_token)]
    /\ UNCHANGED <<pc, inputs, sp_model, registry, attrs, vocab_file, error, ret>>

\* Line 94 with a missed token remembered in the registry.
BeginConvertTokenToIdCaching(t, token) ==
    /\ pc = "constructed"
    /\ threads[t].op = "idle"
    /\ threads' = [threads EXCEPT ![t] =
                      InFlight("_convert_token_to_id", token,
                               token \in DOMAIN special_token_to_id)]
    /\ special_token_to_id' =
          [k \in DOMAIN special_token_to_id \cup {token} |->
              IF k \in DOMAIN special_token_to_id THEN special_token_to_id[k]
              ELSE piece_to_id(sp_model, token)]
    /\ UNCHANGED <<pc, inputs, sp_model, special_id_to_token, attrs, vocab_file, error, ret>>

\* Line 94: the membership test.
BeginConvertTokenToId(t, token) ==
    /\ pc = "constructed"
    /\ threads[t].op = "idle"
    /\ threads' = [threads EXCEPT ![t] =
                      InFlight("_convert_token_to_id", token,
                               token \in DOMAIN special_token_to_id)]
    /\ UNCHANGED <<pc, inputs, sp_model, registry, attrs, vocab_file, error, ret>>

\* Line 100: the membership test.
BeginConvertIdToToken(t, index) ==
    /\ pc = "constructed"
    /\ threads[t].op = "idle"
    /\ threads' = [threads EXCEPT ![t] =
                      InFlight("_convert_id_to_token", index,
                               index \in DOMAIN special_id_to_token)]
    /\ UNCHANGED <<pc, inputs, sp_model, registry, attrs, vocab_file, error, ret>>

\* Whether caller t has only its last step left.
AtReturn(t) ==
    /\ threads[t].op # "idle"
    /\ threads[t].op = "get_vocab" => threads[t].local.i = threads[t].local.n

\* A dict is missing the key the caller's membership test saw.
KeyError(c) ==
    \/ /\ c.op = "_convert_token_to_id"
       /\ c.local
       /\ c.arg \notin DOMAIN special_token_to_id
    \/ /\ c.op = "_convert_id_to_token"
       /\ c.local
       /\ c.arg \notin DOMAIN special_id_to_token

\* What caller t's last step returns: lines 80, 84, 88, 95-96, 101-102.
ReturnValue(t) ==
    LET c == threads[t]
    IN  IF KeyError(c) THEN Raised("KeyError", {})
        ELSE CASE c.op = "vocab_size" -> Returned(get_piece_size(sp_model), {"get_piece_size"})
               [] c.op = "get_vocab" -> Returned(c.local.vocab, {"get_piece_size", "IdToPiece"})
               [] c.op = "_tokenize" ->
                    Returned(<<c.local>> \o encode(sp_model, c.arg), {"encode"})
               [] c.op = "_convert_token_to_id" ->
                    IF c.local THEN Returned(special_token_to_id[c.arg], {})
                    ELSE Returned(piece_to_id(sp_model, c.arg), {"piece_to_id"})
               [] c.op = "_convert_id_to_token" ->
                    IF c.local THEN Returned(special_id_to_token[c.arg], {})
                    ELSE IF c.arg \in 0 .. (get_piece_size(sp_model) - 1)
                         THEN Returned(IdToPiece(sp_model, c.arg), {"IdToPiece"})
                         ELSE Raised("IndexError", {"IdToPiece"})

\* The caller's last step.
Return(t) ==
    /\ AtReturn(t)
    /\ threads' = [threads EXCEPT ![t] = Idle]
    /\ UNCHANGED <<pc, inputs, sp_model, registry, attrs, vocab_file, error, ret>>

\* What the call returns when no other call is in progress.
Alone(op, arg) ==
    CASE op = "vocab_size" -> Returned(vocab_size, {"get_piece_size"})
      [] op = "get_vocab" -> get_vocab
      [] op = "_tokenize" -> _tokenize(arg)
      [] op = "_convert_token_to_id" -> _convert_token_to_id(arg)
      [] op = "_convert_id_to_token" -> _convert_id_to_token(arg)

NextConc ==
    \/ BuildRegistry
    \/ CheckRegistry
    \/ SuperInit
    \/ StoreVocabFile
    \/ \E t \in Threads : BeginVocabSize(t)
    \/ \E t \in Threads : BeginGetVocab(t)
    \/ \E t \in Threads : GetVocabStep(t)
    \/ \E t \in Threads : \E text \in Texts : BeginTokenize(t, text)
    \/ \E t \in Threads : \E token \in QueryStrings : BeginConvertTokenToId(t, token)
    \/ \E t \in Threads : \E index \in QueryIds : BeginConvertIdToToken(t, index)
    \/ \E t \in Threads : Return(t)

SpecConc == Init /\ [][NextConc]_vars

(***************************************************************************)
(* Properties.                                                             *)
(***************************************************************************)
\* The strings configured as special tokens.
Configured == {args.bos_token, args.eos_token, args.unk_token}

\* The assertions of lines 58-62 have been evaluated.
CheckDone == pc \in {"checked", "super", "constructed", "failed"}

\* The ids of the roles string s was configured for.
RoleIds(s) ==
    (IF s = args.bos_token THEN {model.bos_id} ELSE {})
    \cup (IF s = args.eos_token THEN {model.eos_id} ELSE {})
    \cup (IF s = args.unk_token THEN {model.unk_id} ELSE {})

\* C1: construction fails with an assertion error, before the base-class
\* initialiser has stored the tokens and before vocab_file is stored,
\* whenever a configured special string resolves through piece_to_id to an
\* id other than unk_id; so past the assertions every configured string
\* resolves in the raw vocabulary to the unknown id.
C1_CollisionFailsConstruction ==
    /\ (CheckDone /\ \E s \in Configured : piece_to_id(model, s) # model.unk_id)
          => /\ pc = "failed"
             /\ error # 0
             /\ bos_token = NoValue /\ eos_token = NoValue /\ unk_token = NoValue
             /\ vocab_file = NoValue
    /\ pc \in {"checked", "super", "constructed"}
          => \A s \in Configured : piece_to_id(sp_model, s) = sp_model.unk_id

C1_Witness ==
    /\ pc = "failed"
    /\ error = 61
    /\ \E s \in Configured : piece_to_id(model, s) # model.unk_id
    /\ vocab_file = NoValue

\* C2: a token that is a key of special_token_to_id converts to the registry
\* id, which is the id of a role the string was configured for, without
\* piece_to_id being consulted; an id that is a key of special_id_to_token
\* converts to the configured string without IdToPiece being consulted;
\* every other token or id gets exactly the sp_model lookup.
C2_RegistryPrecedence ==
    /\ ret.op = "_convert_token_to_id" =>
          IF ret.arg \in DOMAIN special_token_to_id
          THEN /\ ret.raised = "none"
               /\ ret.value = special_token_to_id[ret.arg]
               /\ ret.value \in RoleIds(ret.arg)
               /\ "piece_to_id" \notin ret.calls
          ELSE /\ ret.raised = "none"
               /\ ret.value = piece_to_id(sp_model, ret.arg)
               /\ ret.calls = {"piece_to_id"}
    /\ ret.op = "_convert_id_to_token" =>
          IF ret.arg \in DOMAIN special_id_to_token
          THEN /\ ret.raised = "none"
               /\ ret.value = special_id_to_token[ret.arg]
               /\ ret.value \in Configured
               /\ "IdToPiece" \notin ret.calls
          ELSE /\ ret.calls = {"IdToPiece"}
               /\ IF ret.arg \in 0 .. (Len(sp_model.pieces) - 1)
                  THEN ret.raised = "none" /\ ret.value = IdToPiece(sp_model, ret.arg)
                  ELSE ret.raised = "IndexError"

\* The begin token was renamed to a string the vocabulary also holds, and the
\* registry id was returned, not the vocabulary's.
C2_Witness ==
    /\ ret.op = "_convert_token_to_id"
    /\ ret.arg = args.bos_token
    /\ ret.arg \in PieceSet(sp_model)
    /\ ret.value = model.bos_id
    /\ ret.value # piece_to_id(sp_model, ret.arg)

\* C3: _tokenize(text) is the begin-sequence token followed by exactly
\* sp_model.encode(text), for every text; for the empty text it is the
\* one-element sequence holding the begin token.
C3_BeginTokenPrepended ==
    ret.op = "_tokenize" =>
        /\ ret.raised = "none"
        /\ Len(ret.value) = 1 + Len(encode(sp_model, ret.arg))
        /\ Head(ret.value) = args.bos_token
        /\ Tail(ret.value) = encode(sp_model, ret.arg)
        /\ ret.arg = <<>> => ret.value = <<args.bos_token>>

C3_Witness ==
    /\ ret.op = "_tokenize"
    /\ ret.arg = <<>>
    /\ ret.value = <<args.bos_token>>

\* C4: in a constructed tokenizer special_token_to_id has one entry per
\* role, the three strings are pairwise distinct, the three ids are pairwise
\* distinct and special_id_to_token is the exact inverse.
C4_OneIdOneStringPerRole ==
    pc = "constructed" =>
        /\ Cardinality(DOMAIN special_token_to_id) = 3
        /\ Cardinality(Configured) = 3
        /\ Cardinality({model.bos_id, model.eos_id, model.unk_id}) = 3
        /\ special_token_to_id[args.bos_token] = model.bos_id
        /\ special_token_to_id[args.eos_token] = model.eos_id
        /\ special_token_to_id[args.unk_token] = model.unk_id
        /\ DOMAIN special_id_to_token = {special_token_to_id[k] : k \in DOMAIN special_token_to_id}
        /\ \A k \in DOMAIN special_token_to_id : special_id_to_token[special_token_to_id[k]] = k

\* C5: _convert_token_to_id never raises, and a token that is neither a
\* configured special string nor a piece converts to unk_id, the id the
\* configured unk_token maps to.
C5_UnknownTokenToUnkId ==
    ret.op = "_convert_token_to_id" =>
        /\ ret.raised = "none"
        /\ (ret.arg \notin DOMAIN special_token_to_id /\ ret.arg \notin PieceSet(sp_model))
              => /\ ret.value = sp_model.unk_id
                 /\ ret.value = special_token_to_id[args.unk_token]

C5_Witness ==
    /\ ret.op = "_convert_token_to_id"
    /\ ret.arg = "zz"
    /\ ret.arg \notin Configured
    /\ ret.value = model.unk_id

\* C6: once construction has completed, under every interleaving of the five
\* read operations the registry and the loaded vocabulary are the ones
\* construction produced, and a call about to return returns what the same
\* call returns when run alone.
C6_ReadOnlyUnderInterleaving ==
    pc = "constructed" =>
        /\ special_token_to_id = SpecialTokenToId(model, args)
        /\ special_id_to_token = SpecialIdToToken(SpecialTokenToId(model, args), KeyOrder(args))
        /\ sp_model = model
        /\ \A t \in Threads :
              AtReturn(t) => ReturnValue(t) = Alone(threads[t].op, threads[t].arg)

\* One caller is in the middle of get_vocab while another is about to return
\* from _convert_token_to_id.
C6_Witness ==
    \E t, u \in Threads :
        /\ t # u
        /\ threads[t].op = "get_vocab"
        /\ threads[t].local.i > 0
        /\ threads[t].local.i < threads[t].local.n
        /\ threads[u].op = "_convert_token_to_id"
        /\ AtReturn(u)

\* C7: get_vocab has exactly vocab_size entries, no two token strings share
\* an id, and the ids are exactly 0..vocab_size-1.
C7_GetVocabDense ==
    ret.op = "get_vocab" =>
        /\ ret.raised = "none"
        /\ Cardinality(DOMAIN ret.value) = vocab_size
        /\ \A k1, k2 \in DOMAIN ret.value : k1 # k2 => ret.value[k1] # ret.value[k2]
        /\ {ret.value[k] : k \in DOMAIN ret.value} = 0 .. (vocab_size - 1)

\* The configured strings replaced the pieces at their ids, and an ordinary
\* piece kept its own.
C7_Witness ==
    /\ ret.op = "get_vocab"
    /\ Configured \subseteq DOMAIN ret.value
    /\ \E i \in 0 .. (vocab_size - 1) : IdToPiece(sp_model, i) \notin DOMAIN ret.value
    /\ \E i \in 0 .. (vocab_size - 1) :
          /\ IdToPiece(sp_model, i) \in DOMAIN ret.value
          /\ ret.value[IdToPiece(sp_model, i)] = i

\* C8: converting an id of 0..vocab_size-1 to its token and back gives the
\* id, and converting a configured special string to its id and back gives
\* the string.
C8_RoundTrip ==
    /\ (ret.op = "_convert_id_to_token" /\ ret.arg \in 0 .. (vocab_size - 1))
          => /\ ret.raised = "none"
             /\ _convert_token_to_id(ret.value).raised = "none"
             /\ _convert_token_to_id(ret.value).value = ret.arg
    /\ (ret.op = "_convert_token_to_id" /\ ret.arg \in Configured)
          => /\ ret.raised = "none"
             /\ _convert_id_to_token(ret.value).raised = "none"
             /\ _convert_id_to_token(ret.value).value = ret.arg

\* A special id went to a string the vocabulary does not hold and came back.
C8_Witness ==
    /\ ret.op = "_convert_id_to_token"
    /\ ret.arg \in DOMAIN special_id_to_token
    /\ ret.value \notin PieceSet(sp_model)
    /\ _convert_token_to_id(ret.value).value = ret.arg

\* C9: in every state after construction, also after bos_token has been
\* reassigned, the first token of _tokenize(text) converts to bos_id.
C9_FirstTokenIsBosId ==
    ret.op = "_tokenize" =>
        /\ _convert_token_to_id(Head(ret.value)).raised = "none"
        /\ _convert_token_to_id(Head(ret.value)).value = sp_model.bos_id

\* C10: construction fails whenever the model reports a negative bos, eos
\* or unk id; so past the assertions every id of the registry is >= 0.
C10_NegativeIdFailsConstruction ==
    /\ (CheckDone /\ (model.bos_id < 0 \/ model.eos_id < 0 \/ model.unk_id < 0))
          => pc = "failed" /\ error # 0
    /\ pc \in {"checked", "super", "constructed"}
          => /\ \A k \in DOMAIN special_token_to_id : special_token_to_id[k] >= 0
             /\ \A v \in DOMAIN special_id_to_token : v >= 0

====
